---- MODULE Spec2Model ----
(***************************************************************************)
(* Model of mcp-feishu-bot's relay core:                                   *)
(*   - RelayHandle (src/src/mcp_feishu_bot/relay.py): dedup map, freshness *)
(*     check and per-type handlers of on_feishu_msg;                       *)
(*   - RobotClient / AgentClient (robot.py, agent.py): the connection      *)
(*     loop _run, start, stop, send_text, send_json.                       *)
(* The state machines share the variables:                                 *)
(*   SpecRelay      deliveries to on_feishu_msg made one at a time         *)
(*   SpecRelayConc  two on_feishu_msg calls running concurrently           *)
(*   SpecLoop       the connection manager: its loop thread and a          *)
(*                  controller calling start() and stop()                  *)
(*   SpecLoopFair   SpecLoop with weak fairness of the loop thread         *)
(*   SpecConn       SpecLoop plus a thread calling send_text / send_json   *)
(*   SpecRouter     worker events handed to on_robot_event                 *)
(*   SpecRespond    respond events only, from a small set of entries       *)
(*   SpecRead       the receive loop of _run, frame by frame               *)
(*   SpecSend       two threads calling send_text at once                  *)
(*   SpecRedeliver  messages with a fixed create_time delivered repeatedly *)
(*   SpecOrder      one connection's frames taken in arrival order         *)
(*   SpecDispatch   worker events of every method and action               *)
(*   SpecReplyTo    respond events of different tasks                      *)
(*   SpecFetch      BitableHandle's paginated fetches (bitable.py)         *)
(***************************************************************************)
EXTENDS Integers, Sequences, FiniteSets, TLC

VARIABLES
    \* ---- RelayHandle -------------------------------------------------
    clock,          \* int(time.time()) as read by the next call
    seen_trace_ids, \* self._seen_trace_ids : message_id -> seen_at
    robot,          \* self.robot : "unset" (set_robot never called), "none", "set"
    last,           \* ghost: the on_feishu_msg call completed last at the current clock
    effects,        \* ghost: platform / worker calls made by the last call
    ticks,          \* ghost: number of clock advances so far
    calls,          \* SpecRelayConc: state of each concurrent on_feishu_msg call
    handled,        \* ghost: handler invocations per message_id (SpecRelayConc,
                    \* SpecRedeliver)
    admitAt,        \* ghost: message_id -> time of its latest admission, -1 if none
    created,        \* SpecRedeliver: message_id -> its create_time (epoch ms)
    \* ---- RobotClient -------------------------------------------------
    loopSet,        \* self._loop is not None
    threadAlive,    \* self._thread is not None and self._thread.is_alive()
    threads,        \* ghost: number of connection-loop threads alive
    pc,             \* position of the loop thread inside _run
    ws,             \* self._ws : 0 (None) or a socket id
    sock,           \* socket id -> "closed" (or never opened) | "open" | "closing"
    stopFlag,       \* self._stop.is_set()
    backoff,        \* local backoff of _run
    fails,          \* ghost: sleeps since the last successful connect
    slept,          \* ghost: the delay of the last time.sleep(backoff), 0 if none
    ready,          \* the event loop's FIFO of thread-safe callbacks
    sendLock,       \* self._send_lock : "free" or "sender" (held by the sender thread)
    snd,            \* the sender thread's send_text / send_json call
    stp,            \* the controller's stop() call in progress
    reconnect,      \* self.reconnect (constructor argument)
    starts,         \* ghost: what the last start() call did: "started" | "already"
    rx,             \* ghost: the frame the read loop took last and what it did with it
    hello,          \* ghost: hello frames written on the socket self._ws holds
    stops,          \* ghost: stop() calls begun and returned since the last
                    \* effective start(), 2 standing for two or more; -1 while a
                    \* stop() begun before that start() is still in flight
    \* ---- concurrent send_text callers (SpecSend) ----------------------
    senders,        \* caller thread -> its send_text call
    wire,           \* ghost: the frames written on sockets, <<caller, call number>>
    \* ---- RelayHandle.on_robot_event ----------------------------------
    event,          \* the worker event on_robot_event is handling, or NoEvent
    platform,       \* the platform calls made for it: what MsgHandle.send_text built
    \* ---- the receive loop, frame by frame (SpecOrder) -----------------
    inbox,          \* frames that arrived on the socket and the loop has not taken
    cb,             \* ghost: frames arrived, callbacks running and returned
    \* ---- BitableHandle: a paginated fetch (SpecFetch) -----------------
    remote,         \* the remote's answer to each page request
    fetch           \* the running get_remote_tables / get_remote_fields call

relayVars == <<clock, seen_trace_ids, robot, last, effects, ticks, calls, handled,
               admitAt, created>>
connVars == <<loopSet, threadAlive, threads, pc, ws, sock, stopFlag, backoff, fails,
              slept, ready, sendLock, snd, stp, reconnect, starts, rx, hello,
              stops>>
routerVars == <<event, platform>>
sendVars == <<senders, wire>>
\* what the connection manager's own actions never touch
orderVars == <<inbox, cb>>
fetchVars == <<remote, fetch>>
otherVars == <<relayVars, routerVars, sendVars, orderVars, fetchVars>>
vars == <<relayVars, connVars, routerVars, sendVars, orderVars, fetchVars>>

(***************************************************************************)
(* Program constants                                                       *)
(***************************************************************************)
DedupTtlSeconds == 1800
StaleSeconds == 600
BackoffCap == 30
MsPerSecond == 1000

(***************************************************************************)
(* Bounds of the model                                                     *)
(***************************************************************************)
StartTime == 2000
MaxTicks == 2
MaxDeliveries == 3
MaxFails == 6
MaxSockets == 2
MaxReady == 2
MaxThreads == 2
MaxTextLen == 2
MaxActions == 2
MaxCalls == 2

Min(a, b) == IF a < b THEN a ELSE b

(***************************************************************************)
(* RelayHandle: data                                                       *)
(***************************************************************************)
MsgIds == {"m1", "m2"}
MsgTypes == {"text", "image", "file", "post"}
\* milliseconds between create_time and the clock at delivery (negative: future)
AgesMs == {0 - 1300 * MsPerSecond, 0, StaleSeconds * MsPerSecond,
           StaleSeconds * MsPerSecond + 1, 2 * StaleSeconds * MsPerSecond}
\* clock advances between deliveries
Deltas == {1, StaleSeconds, DedupTtlSeconds - 1, DedupTtlSeconds}
\* keys of the worker's response
RespKeys == {"errmsg", "message", "emoji"}

EmptyMap == [k \in {} |-> 0]
NoCall == [id |-> "", old |-> FALSE, outcome |-> "none", type |-> "",
           raised |-> FALSE, errmsg |-> FALSE, age |-> 0,
           answered |-> FALSE, resp |-> {}, replyRaised |-> FALSE]

(***************************************************************************)
(* RelayHandle: pure parts                                                 *)
(***************************************************************************)
\* _prune_seen with the staleness threshold used as the TTL
prune_seen_short_ttl(seen, now_sec) ==
    LET cutoff == now_sec - StaleSeconds
        stale_keys == {k \in DOMAIN seen : seen[k] < cutoff}
    IN  [k \in (DOMAIN seen) \ stale_keys |-> seen[k]]

\* _prune_seen dropping the keys at the cutoff as well
prune_seen_inclusive(seen, now_sec) ==
    LET cutoff == now_sec - DedupTtlSeconds
        stale_keys == {k \in DOMAIN seen : seen[k] <= cutoff}
    IN  [k \in (DOMAIN seen) \ stale_keys |-> seen[k]]

\* _prune_seen: drop every key whose seen_at is below now_sec - TTL
prune_seen(seen, now_sec) ==
    LET cutoff == now_sec - DedupTtlSeconds
        stale_keys == {k \in DOMAIN seen : seen[k] < cutoff}
    IN  [k \in (DOMAIN seen) \ stale_keys |-> seen[k]]

\* the staleness test comparing milliseconds with seconds
is_expired_no_div(now_sec, create_time) ==
    now_sec - create_time > StaleSeconds

\* now_sec - (msg_ts // 1000) > 600
is_expired(now_sec, create_time) ==
    now_sec - (create_time \div MsPerSecond) > StaleSeconds

\* the duplicate test skipped
is_duplicate_never(seen, trace_id) == FALSE

\* trace_id in self._seen_trace_ids
is_duplicate(seen, trace_id) == trace_id \in DOMAIN seen

\* the entry stored without its time
mark_seen_zero(seen, trace_id, now_sec) ==
    [k \in (DOMAIN seen) \cup {trace_id} |->
        IF k = trace_id THEN 0 ELSE seen[k]]

\* self._seen_trace_ids[trace_id] = now_sec
mark_seen(seen, trace_id, now_sec) ==
    [k \in (DOMAIN seen) \cup {trace_id} |->
        IF k = trace_id THEN now_sec ELSE seen[k]]

\* a rejected delivery refreshing the entry's time
seen_after_reject_refreshed(seen, trace_id, now_sec) ==
    IF trace_id \in DOMAIN seen THEN mark_seen(seen, trace_id, now_sec) ELSE seen

\* the two early returns of on_feishu_msg (duplicate, expired) write nothing to
\* the map
seen_after_reject(seen, trace_id, now_sec) == seen

(***************************************************************************)
(* Outcomes of the collaborators' calls made by a handler: the reaction    *)
(* call, json.loads of the content, the worker call and its response keys, *)
(* the download and the reply call.                                        *)
(***************************************************************************)
AllOk == [ack |-> TRUE, content |-> TRUE, fwd |-> TRUE, resp |-> {},
          save |-> "ok", reply |-> TRUE]
Failures == {[AllOk EXCEPT !.ack = FALSE], [AllOk EXCEPT !.content = FALSE],
             [AllOk EXCEPT !.fwd = FALSE]}
Scenarios(msg_type) ==
    IF msg_type = "text"
    THEN {[AllOk EXCEPT !.resp = r] : r \in SUBSET RespKeys} \cup Failures
         \cup {[AllOk EXCEPT !.reply = FALSE, !.resp = {"message", "emoji"}]}
    ELSE IF msg_type = "image"
    THEN {[AllOk EXCEPT !.resp = r] : r \in SUBSET {"errmsg", "message"}} \cup Failures
         \cup {[AllOk EXCEPT !.save = "fail"], [AllOk EXCEPT !.save = "raise"]}
    ELSE IF msg_type = "file"
    THEN {AllOk, [AllOk EXCEPT !.ack = FALSE], [AllOk EXCEPT !.save = "raise"]}
    ELSE {AllOk}

\* a text handler that reads the response as one of message or emoji
on_text_msg_one_key(h) ==
    IF ~h.ack THEN <<"ack">>
    ELSE IF ~h.content THEN <<"ack">>
    ELSE IF ~h.fwd THEN <<"ack", "forward">>
    ELSE IF "errmsg" \in h.resp THEN <<"ack", "forward", "reply_errmsg">>
    ELSE IF "message" \in h.resp THEN <<"ack", "forward", "reply_message">>
    ELSE IF "emoji" \in h.resp THEN <<"ack", "forward", "reply_emoji">>
    ELSE <<"ack", "forward">>

\* _on_text_msg with self.robot set: the calls it makes, in order
on_text_msg(h) ==
    IF ~h.ack THEN <<"ack">>
    ELSE IF ~h.content THEN <<"ack">>
    ELSE IF ~h.fwd THEN <<"ack", "forward">>
    ELSE IF "errmsg" \in h.resp THEN <<"ack", "forward", "reply_errmsg">>
    ELSE <<"ack", "forward">>
         \o (IF "message" \in h.resp THEN <<"reply_message">> ELSE <<>>)
         \o (IF "emoji" \in h.resp /\ ("message" \notin h.resp \/ h.reply)
             THEN <<"reply_emoji">> ELSE <<>>)

\* _on_image_msg with self.robot set
on_image_msg(h) ==
    IF ~h.ack THEN <<"ack">>
    ELSE IF ~h.content THEN <<"ack">>
    ELSE IF h.save # "ok" THEN <<"ack", "save_image">>
    ELSE IF ~h.fwd THEN <<"ack", "save_image", "forward">>
    ELSE IF "errmsg" \in h.resp THEN <<"ack", "save_image", "forward">>
    ELSE <<"ack", "save_image", "forward">>
         \o (IF "message" \in h.resp THEN <<"reply_message">> ELSE <<>>)

\* _on_file_msg with self.robot set
on_file_msg(h) ==
    IF ~h.ack THEN <<"ack">>
    ELSE IF ~h.content THEN <<"ack">>
    ELSE <<"ack", "save_file">>

\* a dispatch that hands every other type to the text handler
dispatch_default_text(msg_type, h) ==
    IF robot # "set" THEN <<>>
    ELSE IF msg_type = "image" THEN on_image_msg(h)
    ELSE IF msg_type = "file" THEN on_file_msg(h)
    ELSE on_text_msg(h)

\* the type dispatch at the end of on_feishu_msg
dispatch(msg_type, h) ==
    IF msg_type \notin {"text", "image", "file"} THEN <<>>
    ELSE IF robot # "set" THEN <<>>
    ELSE IF msg_type = "text" THEN on_text_msg(h)
    ELSE IF msg_type = "image" THEN on_image_msg(h)
    ELSE on_file_msg(h)

\* the handler made its worker call and the response holds the key errmsg
worker_errmsg(msg_type, h) ==
    /\ \E i \in 1..Len(dispatch(msg_type, h)) : dispatch(msg_type, h)[i] = "forward"
    /\ h.fwd
    /\ "errmsg" \in h.resp

\* the handler made its worker call and the call returned a response
worker_answered(msg_type, h) ==
    /\ \E i \in 1..Len(dispatch(msg_type, h)) : dispatch(msg_type, h)[i] = "forward"
    /\ h.fwd

\* a reply_text call of the handler raised (the handler's except logs it)
reply_raised(msg_type, h) ==
    /\ ~h.reply
    /\ \E i \in 1..Len(dispatch(msg_type, h)) :
          dispatch(msg_type, h)[i] \in {"reply_message", "reply_errmsg"}

\* `self.robot is None` raises AttributeError when set_robot was never called
dispatch_raises(msg_type) ==
    msg_type \in {"text", "image", "file"} /\ robot = "unset"

(***************************************************************************)
(* RelayHandle.on_feishu_msg, one whole call                               *)
(***************************************************************************)
\* create_time (epoch ms) of a message age_ms old at now_sec
CreateTime(now_sec, age_ms) == now_sec * MsPerSecond - age_ms

\* int(payload.message.create_time) raises ValueError or TypeError unless
\* create_time spells an integer; the call is outside every try
int_raises(is_int) == ~is_int

\* is_int: create_time spells an integer, age_ms before now_sec
on_feishu_msg(trace_id, age_ms, is_int) ==
    LET now_sec == clock
        create_time == CreateTime(now_sec, age_ms)
        pruned == prune_seen(seen_trace_ids, now_sec)
        call == [NoCall EXCEPT !.id = trace_id, !.age = age_ms,
                               !.old = age_ms > StaleSeconds * MsPerSecond]
    IN  IF is_duplicate(pruned, trace_id)
        THEN /\ seen_trace_ids' = seen_after_reject(pruned, trace_id, now_sec)
             /\ last' = [call EXCEPT !.outcome = "duplicate"]
             /\ effects' = <<>>
             /\ admitAt' = admitAt
        ELSE IF int_raises(is_int)
        THEN /\ seen_trace_ids' = pruned
             /\ last' = [call EXCEPT !.outcome = "error", !.raised = TRUE,
                                     !.age = 0, !.old = FALSE]
             /\ effects' = <<>>
             /\ admitAt' = admitAt
        ELSE IF is_expired(now_sec, create_time)
        THEN /\ seen_trace_ids' = seen_after_reject(pruned, trace_id, now_sec)
             /\ last' = [call EXCEPT !.outcome = "expired"]
             /\ effects' = <<>>
             /\ admitAt' = admitAt
        ELSE /\ seen_trace_ids' = mark_seen(pruned, trace_id, now_sec)
             /\ admitAt' = [admitAt EXCEPT ![trace_id] = now_sec]
             /\ \E msg_type \in MsgTypes : \E h \in Scenarios(msg_type) :
                   /\ last' = [call EXCEPT !.outcome = "admitted",
                                           !.type = msg_type,
                                           !.raised = dispatch_raises(msg_type),
                                           !.errmsg = worker_errmsg(msg_type, h),
                                           !.answered = worker_answered(msg_type, h),
                                           !.resp = IF worker_answered(msg_type, h)
                                                    THEN h.resp ELSE {},
                                           !.replyRaised = reply_raised(msg_type, h)]
                   /\ effects' = dispatch(msg_type, h)

(***************************************************************************)
(* SpecRelay: deliveries made one at a time under a non-decreasing clock   *)
(***************************************************************************)
RelayIdle ==
    /\ clock = StartTime
    /\ seen_trace_ids = EmptyMap
    /\ robot = "set"
    /\ last = NoCall
    /\ effects = <<>>
    /\ ticks = 0
    /\ calls = EmptyMap
    /\ handled = [m \in MsgIds |-> 0]
    /\ admitAt = [m \in MsgIds |-> 0 - 1]
    /\ created = [m \in MsgIds |-> 0]

\* no worker event is being handled
NoEvent == [isdict |-> FALSE, method |-> "", action |-> "",
            detail |-> [isdict |-> FALSE, actions |-> <<>>], state |-> "idle",
            route |-> ""]
\* the pages of a remote listing, and the empty (None or "") page_token
MaxPages == 3
NoToken == 0
\* a remote holding one page
OnePage == [k \in 1..MaxPages |-> [has_more |-> FALSE, page_token |-> NoToken]]
\* no paginated fetch has been called
NoFetch == [who |-> "", pc |-> "idle", page_token |-> NoToken, page |-> 0]
FetchIdle ==
    /\ remote = OnePage
    /\ fetch = NoFetch

\* no frame has arrived on the connection
NoCallbacks == [arrived |-> 0, running |-> <<>>, done |-> <<>>]
RouterIdle ==
    /\ event = NoEvent
    /\ platform = <<>>
    /\ inbox = <<>>
    /\ cb = NoCallbacks

\* the callers of SpecSend
Senders == {1, 2}
IdleSender == [pc |-> "idle", n |-> 0, ok |-> {}]
SendersIdle ==
    /\ senders = [t \in Senders |-> IdleSender]
    /\ wire = <<>>

\* the read loop has taken no frame on the current connection
NoFrame == [frame |-> [wire |-> "", body |-> ""], calls |-> 0, raised |-> FALSE]

IdleSend == [pc |-> "idle", kind |-> "", conn |-> FALSE, res |-> "none",
             wrote |-> FALSE]
IdleStop == [pc |-> "idle", s |-> 0]

ConnIdle ==
    /\ loopSet = FALSE
    /\ threadAlive = FALSE
    /\ threads = 0
    /\ pc = "none"
    /\ ws = 0
    /\ sock = [s \in 1..MaxSockets |-> "closed"]
    /\ stopFlag = FALSE
    /\ backoff = 1
    /\ fails = 0
    /\ slept = 0
    /\ ready = <<>>
    /\ sendLock = "free"
    /\ snd = IdleSend
    /\ stp = IdleStop
    /\ reconnect = TRUE
    /\ starts = "none"
    /\ rx = NoFrame
    /\ hello = 0
    /\ stops = 0
    /\ SendersIdle
    /\ RouterIdle
    /\ FetchIdle

InitRelay ==
    /\ clock = StartTime
    /\ seen_trace_ids = EmptyMap
    /\ robot \in {"unset", "none", "set"}
    /\ last = NoCall
    /\ effects = <<>>
    /\ ticks = 0
    /\ calls = EmptyMap
    /\ handled = [m \in MsgIds |-> 0]
    /\ admitAt = [m \in MsgIds |-> 0 - 1]
    /\ created = [m \in MsgIds |-> 0]
    /\ ConnIdle

\* time passes between two deliveries
Tick ==
    /\ ticks < MaxTicks
    /\ \E d \in Deltas : clock' = clock + d
    /\ ticks' = ticks + 1
    /\ last' = NoCall
    /\ effects' = <<>>
    /\ UNCHANGED <<seen_trace_ids, robot, calls, handled, admitAt, created>>
    /\ UNCHANGED <<connVars, routerVars, sendVars, orderVars, fetchVars>>

\* the platform delivers one message; on_feishu_msg runs to completion
Deliver ==
    /\ \E m \in MsgIds, age_ms \in AgesMs, is_int \in BOOLEAN :
          on_feishu_msg(m, age_ms, is_int)
    /\ UNCHANGED <<clock, robot, ticks, calls, handled, created>>
    /\ UNCHANGED <<connVars, routerVars, sendVars, orderVars, fetchVars>>

NextRelay == Tick \/ Deliver

SpecRelay == InitRelay /\ [][NextRelay]_vars

(***************************************************************************)
(* Claims settled on SpecRelay                                             *)
(***************************************************************************)
\* a call completed in this step, at the current clock
Delivered == last'.outcome # "none" /\ clock' = clock

\* C1: once message_id m was admitted at time t, a later delivery of m made at
\* a time <= t + 1800 is rejected as a duplicate and makes no platform or
\* worker call (no acknowledgement reaction, no forwarding, no reply).
C1_DuplicateRejected ==
    [][(/\ Delivered
        /\ admitAt[last'.id] >= 0
        /\ clock <= admitAt[last'.id] + DedupTtlSeconds)
       => (last'.outcome = "duplicate" /\ effects' = <<>>)]_vars

\* a duplicate rejected exactly 1800 s after the admission
C1_Witness ==
    /\ last.outcome = "duplicate"
    /\ admitAt[last.id] >= 0
    /\ clock = admitAt[last.id] + DedupTtlSeconds

\* C3: a delivery whose create_time lies more than 600 s before the current
\* time is never admitted, makes no platform or worker call, and leaves the
\* dedup map without a new key and without a changed seen_at.
C3_StaleNeverDispatched ==
    [][(Delivered /\ last'.old)
       => (/\ last'.outcome \in {"duplicate", "expired"}
           /\ effects' = <<>>
           /\ DOMAIN seen_trace_ids' \subseteq DOMAIN seen_trace_ids
           /\ \A k \in DOMAIN seen_trace_ids' :
                 seen_trace_ids'[k] = seen_trace_ids[k])]_vars

\* a stale delivery dropped as expired while the map holds another entry
C3_Witness ==
    /\ last.old
    /\ last.outcome = "expired"
    /\ DOMAIN seen_trace_ids # {}
    /\ last.id \notin DOMAIN seen_trace_ids

(***************************************************************************)
(* SpecRelayConc: on_feishu_msg called from two threads at once.  Each     *)
(* statement that reads or writes self._seen_trace_ids is one step; the    *)
(* code takes no lock.                                                     *)
(***************************************************************************)
Callers == {1, 2}
IdleCall == [pc |-> "idle", id |-> "", age |-> 0, now |-> 0, size |-> 0,
             stale |-> {}]

InitRelayConc ==
    /\ clock = StartTime
    /\ seen_trace_ids = EmptyMap
    /\ robot = "set"
    /\ last = NoCall
    /\ effects = <<>>
    /\ ticks = 0
    /\ calls = [t \in Callers |-> IdleCall]
    /\ handled = [m \in MsgIds |-> 0]
    /\ admitAt = [m \in MsgIds |-> 0 - 1]
    /\ created = [m \in MsgIds |-> 0]
    /\ ConnIdle

\* number of handler invocations so far
Handled == handled["m1"] + handled["m2"]

\* lines 80-81, 109-110: read the clock and start the list comprehension over
\* self._seen_trace_ids.items(); an empty map is iterated in one step
CallBegin(t) ==
    /\ calls[t].pc = "idle"
    /\ Handled < MaxDeliveries
    /\ \E m \in MsgIds, age_ms \in {0, 2 * StaleSeconds * MsPerSecond} :
          calls' = [calls EXCEPT ![t] =
              [pc |-> IF DOMAIN seen_trace_ids = {} THEN "delete" ELSE "iterate",
               id |-> m, age |-> age_ms, now |-> clock,
               size |-> Cardinality(DOMAIN seen_trace_ids), stale |-> {}]]
    /\ UNCHANGED <<clock, seen_trace_ids, robot, last, effects, ticks, handled,
                   admitAt, created>>
    /\ UNCHANGED <<connVars, routerVars, sendVars, orderVars, fetchVars>>

\* line 110: the iteration goes on; a dict whose size changed since the
\* iterator was made raises RuntimeError, which nothing catches
PruneIterate(t) ==
    /\ calls[t].pc = "iterate"
    /\ calls' = [calls EXCEPT ![t] =
          IF Cardinality(DOMAIN seen_trace_ids) # calls[t].size
          THEN [calls[t] EXCEPT !.pc = "raised"]
          ELSE [calls[t] EXCEPT !.pc = "delete",
                   !.stale = {k \in DOMAIN seen_trace_ids :
                                  seen_trace_ids[k] < calls[t].now - DedupTtlSeconds}]]
    /\ UNCHANGED <<clock, seen_trace_ids, robot, last, effects, ticks, handled,
                   admitAt, created>>
    /\ UNCHANGED <<connVars, routerVars, sendVars, orderVars, fetchVars>>

\* lines 111-115: del of every stale key, a missing key ignored
PruneDelete(t) ==
    /\ calls[t].pc = "delete"
    /\ seen_trace_ids' = [k \in (DOMAIN seen_trace_ids) \ calls[t].stale |->
                             seen_trace_ids[k]]
    /\ calls' = [calls EXCEPT ![t].pc = "check"]
    /\ UNCHANGED <<clock, robot, last, effects, ticks, handled, admitAt, created>>
    /\ UNCHANGED <<connVars, routerVars, sendVars, orderVars, fetchVars>>

\* lines 84-93: the duplicate test, then the staleness test
CallCheck(t) ==
    /\ calls[t].pc = "check"
    /\ calls' = [calls EXCEPT ![t].pc =
          IF is_duplicate(seen_trace_ids, calls[t].id) THEN "duplicate"
          ELSE IF is_expired(calls[t].now, CreateTime(calls[t].now, calls[t].age))
          THEN "expired"
          ELSE "insert"]
    /\ UNCHANGED <<clock, seen_trace_ids, robot, last, effects, ticks, handled,
                   admitAt, created>>
    /\ UNCHANGED <<connVars, routerVars, sendVars, orderVars, fetchVars>>

\* line 99: self._seen_trace_ids[trace_id] = now_sec
CallInsert(t) ==
    /\ calls[t].pc = "insert"
    /\ seen_trace_ids' = mark_seen(seen_trace_ids, calls[t].id, calls[t].now)
    /\ calls' = [calls EXCEPT ![t].pc = "handle"]
    /\ UNCHANGED <<clock, robot, last, effects, ticks, handled, admitAt, created>>
    /\ UNCHANGED <<connVars, routerVars, sendVars, orderVars, fetchVars>>

\* lines 100-105: the handler of the message runs
CallHandle(t) ==
    /\ calls[t].pc = "handle"
    /\ handled' = [handled EXCEPT ![calls[t].id] = @ + 1]
    /\ calls' = [calls EXCEPT ![t].pc = "handled"]
    /\ UNCHANGED <<clock, seen_trace_ids, robot, last, effects, ticks, admitAt,
                   created>>
    /\ UNCHANGED <<connVars, routerVars, sendVars, orderVars, fetchVars>>

\* the call returns (or its exception has left it); the thread is free again
CallReturn(t) ==
    /\ calls[t].pc \in {"duplicate", "expired", "handled", "raised"}
    /\ calls' = [calls EXCEPT ![t] = IdleCall]
    /\ UNCHANGED <<clock, seen_trace_ids, robot, last, effects, ticks, handled,
                   admitAt, created>>
    /\ UNCHANGED <<connVars, routerVars, sendVars, orderVars, fetchVars>>

NextRelayConc ==
    \/ Tick
    \/ \E t \in Callers :
          \/ CallBegin(t)
          \/ PruneIterate(t)
          \/ PruneDelete(t)
          \/ CallCheck(t)
          \/ CallInsert(t)
          \/ CallHandle(t)
          \/ CallReturn(t)

SpecRelayConc == InitRelayConc /\ [][NextRelayConc]_vars

\* C2: of the on_feishu_msg calls that carry the same fresh message_id and run
\* concurrently, at most one invokes a handler, and none fails because another
\* call changed the dedup map.  (No time has passed, so no entry has expired.)
C2_OneHandlerNoFailure ==
    ticks = 0 =>
        /\ \A m \in MsgIds : handled[m] <= 1
        /\ \A t \in Callers : calls[t].pc # "raised"

(***************************************************************************)
(* RobotClient (AgentClient is the same code): the connection manager.     *)
(* Threads: the loop thread running _run inside its event loop, a          *)
(* controller calling start() and stop(), a sender calling send_text /     *)
(* send_json.  The event loop runs the callbacks other threads post to it  *)
(* (run_coroutine_threadsafe, call_soon_threadsafe) in FIFO order, and     *)
(* only while _run is suspended in an await (connecting, reading).         *)
(***************************************************************************)
Sockets == 1..MaxSockets
SendKinds == {"text", "json", "json_unencodable"}
Item(kind, s, live) == [kind |-> kind, s |-> s, live |-> live]

\* the manager has a live connection: _run is past connect, has not yet dropped
\* its handle, and the socket is open
Connected ==
    /\ threadAlive
    /\ pc \in {"open", "reading", "finally"}
    /\ ws # 0
    /\ sock[ws] = "open"

\* sockets the manager opened and nobody closed
LiveSockets == {s \in Sockets : sock[s] \in {"open", "closing"}}

\* socket ids a new connection may take
FreeSocks ==
    {s \in Sockets : /\ sock[s] = "closed"
                     /\ ws # s
                     /\ stp.s # s
                     /\ \A i \in 1..Len(ready) : ready[i].s # s}
NewSock == CHOOSE s \in FreeSocks : \A t \in FreeSocks : s <= t

\* a callback posted to the event loop; a loop whose thread has ended never
\* runs what is posted to it
Post(item) == IF threadAlive THEN Append(ready, item) ELSE ready
Room == ~threadAlive \/ Len(ready) < MaxReady - 1

\* the thread of the loop ends: _run returned, or run_until_complete raised
ThreadEnds ==
    /\ threadAlive' = FALSE
    /\ threads' = threads - 1
    /\ pc' = "none"
    /\ ready' = <<>>

InitConn ==
    /\ RelayIdle
    /\ loopSet = FALSE
    /\ threadAlive = FALSE
    /\ threads = 0
    /\ pc = "none"
    /\ ws = 0
    /\ sock = [s \in Sockets |-> "closed"]
    /\ stopFlag = FALSE
    /\ backoff = 1
    /\ fails = 0
    /\ slept = 0
    /\ ready = <<>>
    /\ sendLock = "free"
    /\ snd = IdleSend
    /\ stp = IdleStop
    /\ reconnect \in BOOLEAN
    /\ starts = "none"
    /\ rx = NoFrame
    /\ hello = 0
    /\ stops = 0
    /\ SendersIdle
    /\ RouterIdle
    /\ FetchIdle

(* ---------------------------- start() ---------------------------------- *)
\* start() without its guard
already_running_unchecked == FALSE

\* self._thread and self._thread.is_alive()
already_running == threadAlive

Start ==
    /\ IF already_running
       THEN /\ starts' = "already"
            /\ UNCHANGED <<loopSet, threadAlive, threads, pc, ws, sock, stopFlag,
                           backoff, fails, slept, ready, sendLock, snd, stp,
                           reconnect, stops>>
       ELSE /\ starts' = "started"
            /\ threads < MaxThreads
            /\ stops' = (IF stp.pc = "idle" THEN 0 ELSE -1)
            /\ stopFlag' = FALSE
            /\ loopSet' = TRUE
            /\ ready' = <<>>
            /\ threadAlive' = TRUE
            /\ threads' = threads + 1
            /\ pc' = "while"
            /\ backoff' = 1
            /\ fails' = 0
            /\ slept' = 0
            /\ UNCHANGED <<ws, sock, sendLock, snd, stp, reconnect>>
    /\ UNCHANGED <<otherVars, rx, hello>>

(* ----------------------------- _run ------------------------------------ *)
\* backoff doubled without the cap
next_backoff_uncapped(b) == b * 2

\* backoff = min(backoff * 2, 30)
next_backoff(b) == Min(b * 2, BackoffCap)

\* the reconnect option ignored
loop_breaks_on_stop_only == stopFlag

\* the loop gives up after three failures
loop_breaks_after_three == ~reconnect \/ stopFlag \/ fails >= 3

\* if not self.reconnect or self._stop.is_set(): break
loop_breaks == ~reconnect \/ stopFlag

\* while not self._stop.is_set(): ... await websockets.connect(...)
LoopWhile ==
    /\ threadAlive /\ pc = "while"
    /\ IF stopFlag
       THEN ThreadEnds
       ELSE pc' = "connecting" /\ UNCHANGED <<threadAlive, threads, ready>>
    /\ UNCHANGED <<loopSet, ws, sock, stopFlag, backoff, fails, slept, sendLock,
                   snd, stp, reconnect, starts>>
    /\ UNCHANGED <<otherVars, rx, hello, stops>>

\* the connect succeeds: self._ws = <socket>; backoff = 1
ConnectOk ==
    /\ threadAlive /\ pc = "connecting"
    /\ FreeSocks # {}
    /\ Len(ready) < MaxReady
    /\ ws' = NewSock
    /\ sock' = [sock EXCEPT ![NewSock] = "open"]
    /\ backoff' = 1
    /\ fails' = 0
    /\ slept' = 0
    /\ pc' = "open"
    /\ hello' = 0
    /\ UNCHANGED <<loopSet, threadAlive, threads, stopFlag, ready, sendLock, snd,
                   stp, reconnect, starts>>
    /\ UNCHANGED <<otherVars, rx, stops>>

\* the connect raises: except Exception -> _handle_error, then finally
ConnectFail ==
    /\ threadAlive /\ pc = "connecting"
    /\ fails < MaxFails
    /\ pc' = "finally"
    /\ UNCHANGED <<loopSet, threadAlive, threads, ws, sock, stopFlag, backoff,
                   fails, slept, ready, sendLock, snd, stp, reconnect,
                   starts>>
    /\ UNCHANGED <<otherVars, rx, hello, stops>>

\* _handle_open posting the hello twice
hello_frames_twice(s) == <<Item("hello", s, FALSE), Item("hello", s, FALSE)>>

\* the writes _handle_open posts to the loop: one hello envelope on socket s
hello_frames(s) == <<Item("hello", s, FALSE)>>

\* _handle_open: send_json(hello) -> send_text on the loop thread itself.  It
\* takes the send lock, posts ws.send to its own loop and blocks in
\* fut.result(timeout=5); the loop cannot run meanwhile, so the wait times out
\* and the posted send stays queued.
HandleOpen ==
    /\ threadAlive /\ pc = "open"
    /\ sendLock = "free"
    /\ ready' = ready \o hello_frames(ws)
    /\ pc' = "reading"
    /\ UNCHANGED <<loopSet, threadAlive, threads, ws, sock, stopFlag, backoff,
                   fails, slept, sendLock, snd, stp, reconnect, starts>>
    /\ UNCHANGED <<otherVars, rx, hello, stops>>

\* async for message in self._ws: the peer closes, or the read fails
ReadClosed ==
    /\ threadAlive /\ pc = "reading"
    /\ sock[ws] \in {"open", "closing"}
    /\ sock' = [sock EXCEPT ![ws] = "closed"]
    /\ pc' = "finally"
    /\ UNCHANGED <<loopSet, threadAlive, threads, ws, stopFlag, backoff, fails,
                   slept, ready, sendLock, snd, stp, reconnect, starts>>
    /\ UNCHANGED <<otherVars, rx, hello, stops>>

\* self._on_event(parsed) raises: except Exception -> _handle_error, then
\* finally; nothing closes the socket
CallbackRaises ==
    /\ threadAlive /\ pc = "reading"
    /\ sock[ws] = "open"
    /\ pc' = "finally"
    /\ rx' = [frame |-> [wire |-> "text", body |-> "object"], calls |-> 1,
              raised |-> TRUE]
    /\ UNCHANGED <<loopSet, threadAlive, threads, ws, sock, stopFlag, backoff,
                   fails, slept, ready, sendLock, snd, stp, reconnect,
                   starts>>
    /\ UNCHANGED <<otherVars, hello, stops>>

\* finally: self._handle_close(); self._ws = None
LoopFinally ==
    /\ threadAlive /\ pc = "finally"
    /\ ws' = 0
    /\ pc' = "check"
    /\ rx' = NoFrame
    /\ hello' = 0
    /\ UNCHANGED <<loopSet, threadAlive, threads, sock, stopFlag, backoff, fails,
                   slept, ready, sendLock, snd, stp, reconnect, starts>>
    /\ UNCHANGED <<otherVars, stops>>

\* if not self.reconnect or self._stop.is_set(): break
LoopCheck ==
    /\ threadAlive /\ pc = "check"
    /\ IF loop_breaks
       THEN ThreadEnds
       ELSE pc' = "sleep" /\ UNCHANGED <<threadAlive, threads, ready>>
    /\ UNCHANGED <<loopSet, ws, sock, stopFlag, backoff, fails, slept, sendLock,
                   snd, stp, reconnect, starts>>
    /\ UNCHANGED <<otherVars, rx, hello, stops>>

\* time.sleep(backoff); backoff = min(backoff * 2, 30)
LoopSleep ==
    /\ threadAlive /\ pc = "sleep"
    /\ slept' = backoff
    /\ fails' = fails + 1
    /\ backoff' = next_backoff(backoff)
    /\ pc' = "while"
    /\ UNCHANGED <<loopSet, threadAlive, threads, ws, sock, stopFlag, ready,
                   sendLock, snd, stp, reconnect, starts>>
    /\ UNCHANGED <<otherVars, rx, hello, stops>>

\* the event loop runs the oldest posted callback while _run awaits
LoopRun ==
    /\ threadAlive /\ pc \in {"connecting", "reading"}
    /\ ready # <<>>
    /\ LET it == Head(ready) IN
       IF it.kind \in {"send", "hello"}
       THEN \* ws.send(text): written if the socket is open, else it raises
            /\ ready' = Tail(ready)
            /\ IF it.live
               THEN /\ snd' = [snd EXCEPT !.pc = "done",
                                  !.res = IF sock[it.s] = "open" THEN "true" ELSE "false",
                                  !.wrote = sock[it.s] = "open"]
                    /\ sendLock' = "free"
               ELSE UNCHANGED <<snd, sendLock>>
            /\ hello' = IF it.kind = "hello" /\ it.s = ws /\ sock[it.s] = "open"
                        THEN hello + 1 ELSE hello
            /\ UNCHANGED <<threadAlive, threads, pc, sock>>
       ELSE IF it.kind = "close"
       THEN \* ws.close() starts: the close frame goes out
            /\ ready' = Tail(ready)
            /\ sock' = IF sock[it.s] = "open"
                       THEN [sock EXCEPT ![it.s] = "closing"] ELSE sock
            /\ UNCHANGED <<threadAlive, threads, pc, snd, sendLock, hello>>
       ELSE \* loop.stop(): run_until_complete raises, _run is never resumed
            /\ ThreadEnds
            /\ UNCHANGED <<sock, snd, sendLock, hello>>
    /\ UNCHANGED <<loopSet, ws, stopFlag, backoff, fails, slept, stp, reconnect, starts>>
    /\ UNCHANGED <<otherVars, rx, stops>>

\* the close handshake of a socket completes in the event loop
CloseComplete ==
    /\ threadAlive /\ pc \in {"connecting", "reading"}
    /\ \E s \in Sockets :
          /\ sock[s] = "closing"
          /\ sock' = [sock EXCEPT ![s] = "closed"]
          /\ pc' = IF pc = "reading" /\ ws = s THEN "finally" ELSE pc
    /\ UNCHANGED <<loopSet, threadAlive, threads, ws, stopFlag, backoff, fails,
                   slept, ready, sendLock, snd, stp, reconnect, starts>>
    /\ UNCHANGED <<otherVars, rx, hello, stops>>

LoopStep == LoopWhile \/ LoopFinally \/ LoopCheck \/ LoopSleep

(* ----------------------- send_text / send_json ------------------------- *)
\* send_text with its first statement under the same try as the wait
unguarded_send_result(kind) == "false"

\* what the caller gets when `self._ws.send` is evaluated with self._ws None:
\* send_text lets the AttributeError out (the try starts after it), send_json
\* catches it and returns False
unguarded_send(kind) == IF kind = "text" THEN "raised" ELSE "false"

\* the next call starts: json.dumps (send_json), then `if not self._loop or not
\* self._ws: return False`
SendCheck ==
    /\ snd.pc \in {"idle", "done"}
    /\ \E kind \in SendKinds :
          snd' = IF kind = "json_unencodable" \/ ~loopSet \/ ws = 0
                 THEN [pc |-> "done", kind |-> kind, conn |-> Connected,
                       res |-> "false", wrote |-> FALSE]
                 ELSE [pc |-> "checked", kind |-> kind, conn |-> Connected,
                       res |-> "none", wrote |-> FALSE]
    /\ UNCHANGED <<loopSet, threadAlive, threads, pc, ws, sock, stopFlag, backoff,
                   fails, slept, ready, sendLock, stp, reconnect, starts>>
    /\ UNCHANGED <<otherVars, rx, hello, stops>>

\* with self._send_lock: fut = run_coroutine_threadsafe(self._ws.send(text), loop)
SendSchedule ==
    /\ snd.pc = "checked"
    /\ sendLock = "free"
    /\ IF ws = 0
       THEN /\ snd' = [snd EXCEPT !.pc = "done", !.res = unguarded_send(snd.kind)]
            /\ UNCHANGED <<ready, sendLock>>
       ELSE /\ Room
            /\ ready' = Post(Item("send", ws, TRUE))
            /\ sendLock' = "sender"
            /\ snd' = [snd EXCEPT !.pc = "waiting"]
    /\ UNCHANGED <<loopSet, threadAlive, threads, pc, ws, sock, stopFlag, backoff,
                   fails, slept, stp, reconnect, starts>>
    /\ UNCHANGED <<otherVars, rx, hello, stops>>

\* fut.result(timeout=5) times out: return False; the posted send stays queued
SendTimeout ==
    /\ snd.pc = "waiting"
    /\ snd' = [snd EXCEPT !.pc = "done", !.res = "false"]
    /\ sendLock' = "free"
    /\ ready' = [i \in 1..Len(ready) |-> [ready[i] EXCEPT !.live = FALSE]]
    /\ UNCHANGED <<loopSet, threadAlive, threads, pc, ws, sock, stopFlag, backoff,
                   fails, slept, stp, reconnect, starts>>
    /\ UNCHANGED <<otherVars, rx, hello, stops>>

(* ------------------------------ stop() --------------------------------- *)
\* stop() without its first test
stop_returns_early_never == FALSE

\* if not self._loop: return
stop_returns_early == ~loopSet

\* stop() before any start(): it returns at once
StopNoop ==
    /\ stp.pc = "idle"
    /\ stop_returns_early
    /\ stops' = Min(stops + 1, 2)
    /\ UNCHANGED <<loopSet, threadAlive, threads, pc, ws, sock, stopFlag, backoff,
                   fails, slept, ready, sendLock, snd, stp, reconnect, starts>>
    /\ UNCHANGED <<otherVars, rx, hello>>

\* if not self._loop: return; self._stop.set()
StopBegin ==
    /\ stp.pc = "idle"
    /\ ~stop_returns_early
    /\ stopFlag' = TRUE
    /\ stp' = [stp EXCEPT !.pc = "flagged"]
    /\ UNCHANGED <<loopSet, threadAlive, threads, pc, ws, sock, backoff, fails,
                   slept, ready, sendLock, snd, reconnect, starts>>
    /\ UNCHANGED <<otherVars, rx, hello, stops>>

\* if self._ws: run_coroutine_threadsafe(self._ws.close(), self._loop)
StopClose ==
    /\ stp.pc = "flagged"
    /\ IF ws = 0
       THEN /\ stp' = [stp EXCEPT !.pc = "stopping"]
            /\ UNCHANGED ready
       ELSE /\ Room
            /\ ready' = Post(Item("close", ws, FALSE))
            /\ stp' = [pc |-> "closing", s |-> ws]
    /\ UNCHANGED <<loopSet, threadAlive, threads, pc, ws, sock, stopFlag, backoff,
                   fails, slept, sendLock, snd, reconnect, starts>>
    /\ UNCHANGED <<otherVars, rx, hello, stops>>

\* .result(timeout=5) returns: the socket is closed
StopCloseDone ==
    /\ stp.pc = "closing"
    /\ sock[stp.s] = "closed"
    /\ stp' = [pc |-> "stopping", s |-> 0]
    /\ UNCHANGED <<loopSet, threadAlive, threads, pc, ws, sock, stopFlag, backoff,
                   fails, slept, ready, sendLock, snd, reconnect, starts>>
    /\ UNCHANGED <<otherVars, rx, hello, stops>>

\* .result(timeout=5) times out: except Exception: pass
StopCloseTimeout ==
    /\ stp.pc = "closing"
    /\ sock[stp.s] # "closed"
    /\ stp' = [pc |-> "stopping", s |-> 0]
    /\ UNCHANGED <<loopSet, threadAlive, threads, pc, ws, sock, stopFlag, backoff,
                   fails, slept, ready, sendLock, snd, reconnect, starts>>
    /\ UNCHANGED <<otherVars, rx, hello, stops>>

\* self._loop.call_soon_threadsafe(self._loop.stop)
StopLoop ==
    /\ stp.pc = "stopping"
    /\ Room
    /\ ready' = Post(Item("stop", 0, FALSE))
    /\ stp' = IdleStop
    /\ stops' = (IF stops < 0 THEN 0 ELSE Min(stops + 1, 2))
    /\ UNCHANGED <<loopSet, threadAlive, threads, pc, ws, sock, stopFlag, backoff,
                   fails, slept, sendLock, snd, reconnect, starts>>
    /\ UNCHANGED <<otherVars, rx, hello>>

\* the loop thread's own steps and the event loop's
LoopThread ==
    \/ LoopWhile
    \/ ConnectOk
    \/ ConnectFail
    \/ HandleOpen
    \/ ReadClosed
    \/ CallbackRaises
    \/ LoopFinally
    \/ LoopCheck
    \/ LoopSleep
    \/ LoopRun
    \/ CloseComplete

\* a stop() call, statement by statement
Stop ==
    \/ StopNoop
    \/ StopBegin
    \/ StopClose
    \/ StopCloseDone
    \/ StopCloseTimeout
    \/ StopLoop

\* a send_text / send_json call, statement by statement
Send ==
    \/ SendCheck
    \/ SendSchedule
    \/ SendTimeout

\* the manager with its controller only: start(), stop() and the loop thread
NextLoop == Start \/ LoopThread \/ Stop

SpecLoop == InitConn /\ [][NextLoop]_vars

\* the loop thread is scheduled: every step of _run that waits for nothing
\* outside the thread is eventually taken
SpecLoopFair == InitConn /\ [][NextLoop]_vars /\ WF_vars(LoopStep)

\* the manager with its controller and a sender thread
NextConn == Start \/ LoopThread \/ Stop \/ Send

SpecConn == InitConn /\ [][NextConn]_vars

(***************************************************************************)
(* Claims settled on SpecLoop / SpecConn                                  *)
(***************************************************************************)
\* C4: the delay slept before the k-th consecutive reconnect attempt since the
\* last successful connect (or since start) is min(2^(k-1), 30): 1, 2, 4, 8,
\* 16, 30, 30, ...; after a successful connect it is 1 again; the backoff
\* value stays within 1..30.
C4_BackoffSequence ==
    /\ backoff \in 1..BackoffCap
    /\ slept # 0 => (fails >= 1 /\ slept = Min(2 ^ (fails - 1), BackoffCap))

\* the sixth consecutive sleep, the first one the cap shortens
C4_Witness == fails = 6 /\ slept = BackoffCap /\ pc = "connecting"

\* C5: a send_text call made while the manager has no live connection (before
\* start, while connecting, during a backoff sleep, after the loop ended) does
\* not return true and writes nothing; a call whose write completed within
\* the timeout returns true.
C5_SendTextResult ==
    (snd.pc = "done" /\ snd.kind = "text") =>
        /\ ~snd.conn => (snd.res # "true" /\ ~snd.wrote)
        /\ snd.wrote => snd.res = "true"

\* C6: a send_text or send_json call returns a boolean in every interleaving
\* with the connection loop; it never raises to its caller.
C6_SendNeverRaises == snd.res # "raised"

\* C7: once stop() has returned and the loop thread has ended, no socket the
\* manager opened is still open.
C7_StopLeavesNoSocket ==
    (stopFlag /\ stp.pc = "idle" /\ ~threadAlive) => LiveSockets = {}

C9_OneLiveSocket == Cardinality({s \in Sockets : sock[s] = "open"}) <= 1

\* C10: with reconnect enabled and stop() not called, a connection failure or
\* close is eventually followed by a new connection attempt.
C10_RetriesForever ==
    (pc = "finally" /\ reconnect /\ ~stopFlag) ~> (pc = "connecting" \/ stopFlag)

\* a new attempt is under way after four failures in a row
C10_Witness == pc = "connecting" /\ fails = 4 /\ reconnect /\ ~stopFlag

(***************************************************************************)
(* RelayHandle.on_robot_event: the worker-side dispatch and _on_respond.   *)
(* A text is a sequence of characters: "a" a letter, "7" a digit, " " a    *)
(* blank, "LF" a line feed.  NoneText stands for a key that is missing or  *)
(* null, i.e. what dict.get returns as None.                               *)
(***************************************************************************)
Chars == {"a", "7", " "}
Whitespace == {" ", "LF"}
Texts == UNION {[1..n -> Chars] : n \in 0..MaxTextLen}
NoneText == <<"None">>
OptionLists == {<<>>, << <<"a">> >>, << <<"a">>, <<"7">> >>}
ReplyEmail == "chnwine@qq.com"

\* an entry of detail["actions"] that is not a mapping (a string, a number)
NotMapping == [type |-> "not-a-mapping", text |-> <<>>, options |-> <<>>]

\* an entry of detail["actions"]: text is its content (complete) or question
\* (make-ask)
Entries ==
    {[type |-> "complete", text |-> t, options |-> <<>>] :
        t \in Texts \cup {NoneText}}
    \cup {[type |-> "make-ask", text |-> t, options |-> o] :
             t \in Texts \cup {NoneText}, o \in OptionLists}
    \cup {[type |-> "thinking", text |-> <<>>, options |-> <<>>]}
    \cup {NotMapping}
ActionLists == UNION {[1..n -> Entries] : n \in 0..MaxActions}
Details == {[isdict |-> FALSE, actions |-> <<>>]}
           \cup {[isdict |-> TRUE, actions |-> a] : a \in ActionLists}
Methods == {"system", "message", "notify"}
OtherActions == {"errors", "control", "welcome", "hello", "stream", "bogus"}
Payloads ==
    {[isdict |-> FALSE, method |-> "", action |-> "",
      detail |-> [isdict |-> FALSE, actions |-> <<>>]]}
    \cup {[isdict |-> TRUE, method |-> m, action |-> "respond", detail |-> d] :
             m \in Methods, d \in Details}
    \cup {[isdict |-> TRUE, method |-> m, action |-> a,
           detail |-> [isdict |-> FALSE, actions |-> <<>>]] :
             m \in Methods, a \in OtherActions}

RECURSIVE lstrip(_)
lstrip(s) ==
    IF s # <<>> /\ Head(s) \in Whitespace THEN lstrip(Tail(s)) ELSE s

RECURSIVE rstrip(_)
rstrip(s) ==
    IF s # <<>> /\ s[Len(s)] \in Whitespace
    THEN rstrip(SubSeq(s, 1, Len(s) - 1)) ELSE s

\* str.strip()
strip(s) == rstrip(lstrip(s))

\* sep.join(parts)
RECURSIVE join(_, _)
join(sep, parts) ==
    IF parts = <<>> THEN <<>>
    ELSE IF Len(parts) = 1 THEN parts[1]
    ELSE parts[1] \o sep \o join(sep, Tail(parts))

\* the for loop of _on_respond over detail["actions"]: the collected parts,
\* whether a make-ask or complete entry was seen, and whether txt.strip()
\* raised AttributeError on a None
RECURSIVE collect_parts(_, _, _)
collect_parts(actions, has_tool_result, content_parts) ==
    IF actions = <<>>
    THEN [raised |-> FALSE, has_tool_result |-> has_tool_result,
          content_parts |-> content_parts]
    ELSE LET item == Head(actions) IN
         IF item = NotMapping
            \/ (item.type \in {"make-ask", "complete"} /\ item.text = NoneText)
         THEN [raised |-> TRUE, has_tool_result |-> has_tool_result,
               content_parts |-> content_parts]
         ELSE IF item.type = "make-ask"
         THEN collect_parts(Tail(actions), TRUE,
                  content_parts \o <<strip(item.text), join(<<"LF">>, item.options)>>)
         ELSE IF item.type = "complete"
         THEN collect_parts(Tail(actions), TRUE,
                  content_parts \o <<strip(item.text)>>)
         ELSE collect_parts(Tail(actions), has_tool_result, content_parts)

\* json.loads(content) succeeds: in this alphabet, a number
json_loads_ok(content) ==
    LET body == strip(content)
    IN  body # <<>> /\ \A i \in 1..Len(body) : body[i] = "7"

\* MsgHandle.send_text: a content that parses as JSON is passed as it is, any
\* other is wrapped as {"text": content}
send_text(receive_id, content) ==
    [receive_id |-> receive_id, msg_type |-> "text",
     form |-> IF json_loads_ok(content) THEN "raw" ELSE "text",
     text |-> content]

\* _on_respond: the exception it lets out (if any) and the platform calls made
\* the test before the send, skipped
not_finished_never(c) == FALSE

\* if not has_tool_result: return
not_finished(c) == ~c.has_tool_result

\* what dict.get returns for a key the payload does not carry
Missing == "None"

\* payload.get("taskid")
taskid_of(payload) ==
    IF "taskid" \in DOMAIN payload THEN payload.taskid ELSE Missing

\* a receiver looked up from the task the event belongs to
receiver_of_task(detail, taskid) == taskid

\* email="chnwine@qq.com": the receiver of every respond reply
receiver(detail, taskid) == ReplyEmail

\* send_ok: the platform send call returns instead of raising
on_respond(detail, taskid, send_ok) ==
    IF ~detail.isdict THEN [raised |-> FALSE, calls |-> <<>>]
    ELSE LET c == collect_parts(detail.actions, FALSE, <<>>) IN
         IF c.raised THEN [raised |-> TRUE, calls |-> <<>>]
         ELSE IF not_finished(c) THEN [raised |-> FALSE, calls |-> <<>>]
         ELSE [raised |-> ~send_ok,
               calls |-> <<send_text(receiver(detail, taskid),
                              strip(join(<<"LF", "LF">>, c.content_parts)))>>]

\* print(f"... {payload}") raises UnicodeEncodeError when the payload holds a
\* character that stdout cannot encode (a lone surrogate from a \ud800 escape)
print_raises(printable) == ~printable

\* every method value taken for dispatch
method_list_any == {"system", "message", "notify", Missing}

method_list == {"system", "message"}

\* the recognised actions without "hello"
act_list_without_hello == {"user-input", "stream", "change"}

\* the actions on_robot_event recognises and does nothing for
act_list == {"user-input", "hello", "stream", "change"}

\* the branch on_robot_event takes: the handler it calls or the line it logs
route(payload) ==
    IF ~payload.isdict THEN "unknown payload"
    ELSE IF payload.method \notin method_list THEN "dropped"
    ELSE IF payload.action = "errors" THEN "errors"
    ELSE IF payload.action = "respond" THEN "respond"
    ELSE IF payload.action = "control" THEN "control"
    ELSE IF payload.action = "welcome" THEN "welcome"
    ELSE IF payload.action \notin act_list THEN "unknown action"
    ELSE "no-op"

\* on_robot_event: non-dict payloads and methods outside system/message are
\* dropped; only respond makes platform calls; an exception of the handler is
\* caught and logged with the payload.  printable: the payload can be printed;
\* when it cannot, the offending character lies in the payload itself (not a
\* dict) or under a key that no handler reads.
on_robot_event(payload, printable, send_ok) ==
    IF ~payload.isdict
    THEN [state |-> IF print_raises(printable) THEN "raised" ELSE "dropped",
          calls |-> <<>>, route |-> route(payload)]
    ELSE IF payload.method \notin method_list
    THEN [state |-> "dropped", calls |-> <<>>, route |-> route(payload)]
    ELSE IF payload.action = "respond"
    THEN LET r == on_respond(payload.detail, taskid_of(payload), send_ok)
         IN  [state |-> IF ~r.raised THEN "done"
                        ELSE IF print_raises(printable) THEN "raised"
                        ELSE "failed",
              calls |-> r.calls, route |-> route(payload)]
    ELSE IF payload.action \in {"errors", "control", "welcome"} \cup act_list
    THEN [state |-> "done", calls |-> <<>>, route |-> route(payload)]
    ELSE [state |-> IF print_raises(printable) THEN "raised" ELSE "done",
          calls |-> <<>>, route |-> route(payload)]

\* the connection manager's callback hands one parsed frame to the relay
OnRobotEvent ==
    /\ event.state = "idle"
    /\ \E payload \in Payloads, printable \in BOOLEAN, send_ok \in BOOLEAN :
          LET r == on_robot_event(payload, printable, send_ok)
          IN  /\ event' = [isdict |-> payload.isdict, method |-> payload.method,
                           action |-> payload.action, detail |-> payload.detail,
                           state |-> r.state, route |-> r.route]
              /\ platform' = r.calls
    /\ UNCHANGED <<relayVars, connVars, sendVars, orderVars, fetchVars>>

\* on_robot_event has returned
RouterReturn ==
    /\ event.state # "idle"
    /\ event' = NoEvent
    /\ platform' = <<>>
    /\ UNCHANGED <<relayVars, connVars, sendVars, orderVars, fetchVars>>

InitRouter == RelayIdle /\ ConnIdle

NextRouter == OnRobotEvent \/ RouterReturn

SpecRouter == InitRouter /\ [][NextRouter]_vars

\* the text fragments of a respond detail, in list order: the content of each
\* complete entry, the question and the options of each make-ask entry
RECURSIVE Fragments(_)
Fragments(actions) ==
    IF actions = <<>> THEN <<>>
    ELSE LET item == Head(actions) IN
         (IF item.type = "complete" THEN <<item.text>>
          ELSE IF item.type = "make-ask"
          THEN <<item.text, join(<<"LF">>, item.options)>>
          ELSE <<>>) \o Fragments(Tail(actions))

HasFinalEntry(actions) ==
    \E i \in 1..Len(actions) : actions[i].type \in {"complete", "make-ask"}

\* C11: a respond event (method system or message) whose actions hold at least
\* one complete or make-ask entry makes exactly one platform send, a text
\* message whose text is the fragments joined with a blank line.
C11_OneJoinedReply ==
    (/\ event.state # "idle"
     /\ event.isdict
     /\ event.method \in {"system", "message"}
     /\ event.action = "respond"
     /\ event.detail.isdict
     /\ HasFinalEntry(event.detail.actions))
    => (/\ Len(platform) = 1
        /\ platform[1].form = "text"
        /\ platform[1].text = join(<<"LF", "LF">>, Fragments(event.detail.actions)))


(***************************************************************************)
(* Claims on the handlers of admitted messages (SpecRelay)                 *)
(***************************************************************************)
\* how many times call c occurs in the calls of the last delivery
Count(c) == Cardinality({i \in 1..Len(effects) : effects[i] = c})

\* C12: when the worker's response to an admitted message holds errmsg, the
\* relay replies to the originating message with the error text, once, and
\* sends no message reply and no emoji reply for it.
C12_ErrmsgReplied ==
    (last.outcome = "admitted" /\ last.errmsg)
    => (/\ Count("reply_errmsg") = 1
        /\ Count("reply_message") = 0
        /\ Count("reply_emoji") = 0)


\* C13: after a call made at time now, the dedup map holds exactly the ids
\* whose entry was inserted at a time t0 >= now - 1800, each with its seen_at
\* = t0 unchanged: an entry is still there at every now <= t0 + 1800 and is
\* gone at every now >= t0 + 1801.
C13_PruneExact ==
    last.outcome # "none" =>
        \A m \in MsgIds :
            /\ m \in DOMAIN seen_trace_ids
                  <=> (admitAt[m] >= 0 /\ admitAt[m] >= clock - DedupTtlSeconds)
            /\ m \in DOMAIN seen_trace_ids => seen_trace_ids[m] = admitAt[m]

\* a call made 1801 s after an insertion has removed the entry, while another
\* entry, 1799 s or 1800 s old, is kept
C13_Witness ==
    /\ last.outcome # "none"
    /\ \E m \in MsgIds :
          /\ admitAt[m] >= 0
          /\ clock = admitAt[m] + DedupTtlSeconds + 1
          /\ m \notin DOMAIN seen_trace_ids
    /\ \E m \in DOMAIN seen_trace_ids :
          clock - seen_trace_ids[m] \in {DedupTtlSeconds - 1, DedupTtlSeconds}


\* C14: a delivery whose create_time is an integer is admitted exactly when
\* its message_id is not in the map after pruning (no entry inserted within the
\* last 1800 s) and its create_time is not more than 600 s (600000 ms) before
\* now; exactly 600 s and create times in the future are admitted.  An
\* admitted id is in the map with seen_at = now_sec.
C14_AdmitRule ==
    [][(Delivered /\ last'.outcome # "error") =>
        LET m == last'.id
            dup == admitAt[m] >= 0 /\ admitAt[m] >= clock - DedupTtlSeconds
            stale == last'.age > StaleSeconds * MsPerSecond
        IN  /\ (last'.outcome = "admitted") <=> (~dup /\ ~stale)
            /\ (last'.outcome = "duplicate") <=> dup
            /\ last'.outcome = "admitted"
                  => (m \in DOMAIN seen_trace_ids' /\ seen_trace_ids'[m] = clock)]_vars

\* a message exactly 600 s old was admitted and stamped with the current time
C14_Witness ==
    /\ last.outcome = "admitted"
    /\ last.age = StaleSeconds * MsPerSecond
    /\ seen_trace_ids[last.id] = clock


(***************************************************************************)
(* The receive loop of _run: one frame of `async for message in self._ws`. *)
(* A frame is a text or a binary frame; its body is the kind of JSON value *)
(* it spells, or "garbage" for text that is not JSON.                      *)
(***************************************************************************)
Bodies == {"object", "empty_object", "array", "empty_array", "number", "zero",
           "string", "empty_string", "true", "false", "null", "garbage"}
Frames == {[wire |-> "text", body |-> b] : b \in Bodies}
          \cup {[wire |-> "binary", body |-> "object"]}

\* _try_parse_json on a str: json.loads(s), None when it raises; JSON null
\* loads as None
try_parse_json(body) == IF body \in {"garbage", "null"} THEN "None" ELSE body

\* bool(parsed): empty containers, zero, the empty string, False and None are
\* false
truthy(parsed) == parsed \in {"object", "array", "number", "string", "true"}

\* lines 171-175: parsed stays None for a frame that is not a str; the callback
\* is called `if parsed and self._on_event`
callback_calls(frame) ==
    LET parsed == IF frame.wire = "text" THEN try_parse_json(frame.body) ELSE "None"
    IN  IF truthy(parsed) THEN 1 ELSE 0

\* the loop takes one frame and, if it calls the callback, the callback returns
ReadFrame ==
    /\ threadAlive /\ pc = "reading"
    /\ sock[ws] = "open"
    /\ \E frame \in Frames :
          rx' = [frame |-> frame, calls |-> callback_calls(frame), raised |-> FALSE]
    /\ UNCHANGED <<loopSet, threadAlive, threads, pc, ws, sock, stopFlag, backoff,
                   fails, slept, ready, sendLock, snd, stp, reconnect, starts>>
    /\ UNCHANGED <<otherVars, hello, stops>>

\* the manager once started, its loop thread receiving frames; no stop()
NextRead ==
    \/ Start
    \/ LoopWhile
    \/ ConnectOk
    \/ ConnectFail
    \/ HandleOpen
    \/ ReadFrame
    \/ ReadClosed
    \/ CallbackRaises
    \/ LoopFinally
    \/ LoopCheck
    \/ LoopSleep
    \/ LoopRun

SpecRead == InitConn /\ [][NextRead]_vars

\* C15: the callback is called exactly once for a frame that parses as a JSON
\* object, whatever the object holds, and is not called for any other frame.
C15_CallbackOncePerObject ==
    rx # NoFrame =>
        rx.calls = (IF rx.frame.wire = "text"
                       /\ rx.frame.body \in {"object", "empty_object"}
                    THEN 1 ELSE 0)


(***************************************************************************)
(* SpecSend: two threads calling send_text on a connected manager whose    *)
(* loop writes their frames; the connection may drop (reconnect is off).   *)
(***************************************************************************)
InitSend ==
    /\ RelayIdle
    /\ RouterIdle
    /\ FetchIdle
    /\ SendersIdle
    /\ loopSet = TRUE
    /\ threadAlive = TRUE
    /\ threads = 1
    /\ pc = "reading"
    /\ ws = 1
    /\ sock = [s \in Sockets |-> IF s = 1 THEN "open" ELSE "closed"]
    /\ stopFlag = FALSE
    /\ backoff = 1
    /\ fails = 0
    /\ slept = 0
    /\ ready = <<>>
    /\ sendLock = "free"
    /\ snd = IdleSend
    /\ stp = IdleStop
    /\ reconnect = FALSE
    /\ starts = "started"
    /\ rx = NoFrame
    /\ hello = 0
    /\ stops = 0

\* send_text without its lock
lock_ignored(lock) == TRUE

\* with self._send_lock: the lock can be taken
lock_free(lock) == lock = "free"

\* lines 141-143: the call starts; not connected -> return False
SenderCheck(t) ==
    /\ senders[t].pc = "idle"
    /\ senders[t].n < MaxCalls
    /\ senders' = [senders EXCEPT ![t].n = @ + 1,
                                  ![t].pc = IF ~loopSet \/ ws = 0 THEN "idle"
                                            ELSE "checked"]
    /\ UNCHANGED <<wire, relayVars, routerVars, connVars, orderVars, fetchVars>>

\* lines 144-147: take the lock and post self._ws.send(text) to the loop; with
\* self._ws None by now the attribute access raises and the call ends
SenderSchedule(t) ==
    /\ senders[t].pc = "checked"
    /\ lock_free(sendLock)
    /\ IF ws = 0
       THEN /\ senders' = [senders EXCEPT ![t].pc = "idle"]
            /\ UNCHANGED <<ready, sendLock>>
       ELSE /\ senders' = [senders EXCEPT ![t].pc = "waiting"]
            /\ sendLock' = "sender"
            /\ ready' = Post([kind |-> "send", s |-> ws, live |-> TRUE,
                              who |-> t, n |-> senders[t].n])
    /\ UNCHANGED <<loopSet, threadAlive, threads, pc, ws, sock, stopFlag, backoff,
                   fails, slept, snd, stp, reconnect, starts, rx, hello, stops>>
    /\ UNCHANGED <<wire, relayVars, routerVars, orderVars, fetchVars>>

\* lines 151-153: fut.result(timeout=5) times out -> return False; the posted
\* write stays queued
SenderTimeout(t) ==
    /\ senders[t].pc = "waiting"
    /\ senders' = [senders EXCEPT ![t].pc = "idle"]
    /\ sendLock' = "free"
    /\ ready' = [i \in 1..Len(ready) |->
                    IF ready[i].who = t THEN [ready[i] EXCEPT !.live = FALSE]
                    ELSE ready[i]]
    /\ UNCHANGED <<loopSet, threadAlive, threads, pc, ws, sock, stopFlag, backoff,
                   fails, slept, snd, stp, reconnect, starts, rx, hello, stops>>
    /\ UNCHANGED <<wire, relayVars, routerVars, orderVars, fetchVars>>

\* the event loop runs the oldest posted write: the frame goes out if the
\* socket is open, else send raises; a caller still waiting gets the result
\* (lines 149-150: return True) and leaves the lock
LoopWrite ==
    /\ threadAlive /\ pc = "reading"
    /\ ready # <<>>
    /\ LET it == Head(ready)
           written == sock[it.s] = "open"
       IN  /\ ready' = Tail(ready)
           /\ wire' = IF written THEN Append(wire, <<it.who, it.n>>) ELSE wire
           /\ IF it.live
              THEN /\ senders' = [senders EXCEPT
                          ![it.who].pc = "idle",
                          ![it.who].ok = IF written THEN @ \cup {it.n} ELSE @]
                   /\ sendLock' = "free"
              ELSE UNCHANGED <<senders, sendLock>>
    /\ UNCHANGED <<loopSet, threadAlive, threads, pc, ws, sock, stopFlag, backoff,
                   fails, slept, snd, stp, reconnect, starts, rx, hello, stops>>
    /\ UNCHANGED <<relayVars, routerVars, orderVars, fetchVars>>

NextSend ==
    \/ \E t \in Senders : SenderCheck(t) \/ SenderSchedule(t) \/ SenderTimeout(t)
    \/ LoopWrite
    \/ ReadClosed
    \/ LoopFinally
    \/ LoopCheck

SpecSend == InitSend /\ [][NextSend]_vars

\* position of caller t's n-th frame on the wire, 0 if it was not written
WirePos(t, n) ==
    IF \E i \in 1..Len(wire) : wire[i] = <<t, n>>
    THEN CHOOSE i \in 1..Len(wire) : wire[i] = <<t, n>>
    ELSE 0

\* C16: at most one send_text caller is between scheduling its write and
\* getting its result, no frame is written twice, and the frames of one
\* caller's successful calls are on the wire in call order.
C16_SendersSerialized ==
    /\ Cardinality({t \in Senders : senders[t].pc = "waiting"}) <= 1
    /\ \A i, j \in 1..Len(wire) : wire[i] = wire[j] => i = j
    /\ \A t \in Senders : \A n1, n2 \in senders[t].ok :
          /\ WirePos(t, n1) > 0
          /\ n1 < n2 => WirePos(t, n1) < WirePos(t, n2)

\* one caller waits for its second write after a successful first call while
\* the other caller, past its connected check, is held at the lock
C16_Witness ==
    /\ senders[1].pc = "waiting"
    /\ senders[1].ok = {1}
    /\ senders[2].pc = "checked"
    /\ sendLock = "sender"


\* hello writes posted for socket s and not yet run by the loop
HelloQueued(s) ==
    Cardinality({i \in 1..Len(ready) : ready[i].kind = "hello" /\ ready[i].s = s})

StopStep == stp' # stp \/ stops' > stops

\* C18: a stop() on a manager that was never started, or that an earlier
\* stop() has already stopped (the loop thread has ended), changes nothing;
\* and no statement of stop() ever starts a thread, opens or drops a socket
\* or clears the stop flag.
C18_StopIdempotent ==
    /\ [][(StopStep /\ (~loopSet \/ (stops >= 1 /\ ~threadAlive)))
          => UNCHANGED <<loopSet, threadAlive, threads, pc, ws, sock, stopFlag,
                         backoff, fails, slept, ready, sendLock, reconnect>>]_vars
    /\ [][StopStep
          => (/\ UNCHANGED <<loopSet, threadAlive, threads, pc, ws, sock>>
              /\ stopFlag => stopFlag')]_vars

\* a second stop() has returned on a manager whose loop the first had ended
C18_Witness ==
    /\ stops = 2
    /\ loopSet
    /\ ~threadAlive
    /\ stopFlag
    /\ stp.pc = "idle"
    /\ LiveSockets = {}


\* C19: no on_feishu_msg call lets an exception reach its caller.
C19_NeverPropagates == ~last.raised


\* C20: after the callback failed on a frame the read loop is still reading
\* on the same open socket: the connection is neither dropped nor reopened.
C20_ReadLoopSurvives ==
    rx.raised => (pc = "reading" /\ ws # 0 /\ sock[ws] = "open")


(***************************************************************************)
(* Claims on the worker event router                                       *)
(***************************************************************************)
\* C21: on_robot_event returns normally for every payload: no exception
\* reaches the connection manager's read loop.
C21_ReturnsNormally == event.state # "raised"


(***************************************************************************)
(* Further claims on SpecRelay                                             *)
(***************************************************************************)
\* C22: an admitted message_id is in the dedup map with the time of its
\* admission whatever its handler did (returned, failed, raised, or no handler
\* exists for the type), and it stays there for the TTL; a redelivery that
\* directly follows the admitted call is rejected as a duplicate, makes no call
\* and leaves the map as it was.
C22_RecordedNeverRetried ==
    /\ [](last.outcome = "admitted"
            => (last.id \in DOMAIN seen_trace_ids
                /\ seen_trace_ids[last.id] = clock))
    /\ [](\A m \in MsgIds :
            (admitAt[m] >= 0 /\ clock <= admitAt[m] + DedupTtlSeconds)
                => (m \in DOMAIN seen_trace_ids
                    /\ seen_trace_ids[m] = admitAt[m]))
    /\ [][(Delivered /\ last.outcome = "admitted" /\ last'.id = last.id)
          => (/\ last'.outcome = "duplicate"
              /\ effects' = <<>>
              /\ seen_trace_ids' = seen_trace_ids)]_vars

\* the handler of an admitted text message let its exception out, and the
\* message_id is recorded all the same
C22_Witness ==
    /\ last.outcome = "admitted"
    /\ last.type = "text"
    /\ last.raised
    /\ last.id \in DOMAIN seen_trace_ids
    /\ seen_trace_ids[last.id] = clock


\* C23: the handler of every admitted text, image or file message (worker
\* client configured) issues the acknowledgement reaction first and then
\* forwards the message to the worker; nothing is forwarded before the
\* acknowledgement.
C23_AckThenForward ==
    (/\ last.outcome = "admitted"
     /\ last.type \in {"text", "image", "file"}
     /\ robot = "set")
    => (/\ Len(effects) >= 2
        /\ effects[1] = "ack"
        /\ Count("forward") = 1
        /\ \A i \in 1..Len(effects) : effects[i] = "forward" => i > 1)


(***************************************************************************)
(* SpecRespond: respond events only, their actions drawn from a few        *)
(* entries of every kind _on_respond tells apart.                          *)
(***************************************************************************)
RespondEntries ==
    {[type |-> "complete", text |-> <<"a">>, options |-> <<>>],
     [type |-> "complete", text |-> NoneText, options |-> <<>>],
     [type |-> "make-ask", text |-> <<"a">>, options |-> << <<"a">> >>],
     [type |-> "thinking", text |-> <<>>, options |-> <<>>],
     [type |-> "tool-call", text |-> <<>>, options |-> <<>>],
     NotMapping}
RespondDetails ==
    {[isdict |-> FALSE, actions |-> <<>>]}
    \cup {[isdict |-> TRUE, actions |-> a] :
             a \in UNION {[1..n -> RespondEntries] : n \in 0..MaxActions}}
RespondPayloads ==
    {[isdict |-> TRUE, method |-> m, action |-> "respond", detail |-> d] :
        m \in Methods, d \in RespondDetails}

\* the callback hands one respond event to the relay
OnRespondEvent ==
    /\ event.state = "idle"
    /\ \E payload \in RespondPayloads, printable \in BOOLEAN, send_ok \in BOOLEAN :
          LET r == on_robot_event(payload, printable, send_ok)
          IN  /\ event' = [isdict |-> payload.isdict, method |-> payload.method,
                           action |-> payload.action, detail |-> payload.detail,
                           state |-> r.state, route |-> r.route]
              /\ platform' = r.calls
    /\ UNCHANGED <<relayVars, connVars, sendVars, orderVars, fetchVars>>

NextRespond == OnRespondEvent \/ RouterReturn

SpecRespond == InitRouter /\ [][NextRespond]_vars

\* C24: a respond event whose detail is not a mapping, or whose actions hold
\* no entry of type make-ask or complete (the list may be missing or empty),
\* makes no platform send.
C24_NotFinalNothingSent ==
    (/\ event.state # "idle"
     /\ event.action = "respond"
     /\ (~event.detail.isdict \/ ~HasFinalEntry(event.detail.actions)))
    => platform = <<>>

\* a respond event with two entries, neither of them final, was handled and
\* nothing was sent
C24_Witness ==
    /\ event.state = "done"
    /\ event.method = "message"
    /\ event.action = "respond"
    /\ event.detail.isdict
    /\ Len(event.detail.actions) = 2
    /\ \A i \in 1..2 : event.detail.actions[i].type \in {"thinking", "tool-call"}
    /\ platform = <<>>


(***************************************************************************)
(* Further claims on the connection loop (SpecLoop)                        *)
(***************************************************************************)
\* C25: with reconnect disabled the loop never sleeps and never retries: once
\* an attempt has ended (connect failed, or the connection closed or failed)
\* the loop's next step ends the thread, and a connection attempt is only ever
\* begun by the thread a start() has just created.
C25_SingleAttempt ==
    /\ [](~reconnect => (pc # "sleep" /\ slept = 0 /\ fails = 0))
    /\ [][(~reconnect /\ pc = "check" /\ pc' # "check")
          => (~threadAlive' /\ pc' = "none")]_vars
    /\ [][(~reconnect /\ pc' = "connecting" /\ pc # "connecting")
          => pc = "while"]_vars
    /\ [][(~reconnect /\ pc' = "while" /\ pc # "while")
          => (~threadAlive /\ starts' = "started")]_vars

\* reconnect disabled, no stop() was called, and the loop has ended by itself
\* after its attempt
C25_Witness ==
    /\ ~reconnect
    /\ loopSet
    /\ ~threadAlive
    /\ ~stopFlag
    /\ stp.pc = "idle"
    /\ stops = 0
    /\ ws = 0


\* C26: a delivery rejected as duplicate or stale leaves in the map exactly the
\* entries not older than the TTL, each with the time it had; the time of an
\* entry is always that of its admission; and a message_id whose admission
\* lies more than 1800 s back is no longer a duplicate, however many
\* duplicates of it were delivered meanwhile.
C26_RejectOnlyPrunes ==
    /\ [][(Delivered /\ last'.outcome \in {"duplicate", "expired"})
          => (/\ \A k \in MsgIds :
                    k \in DOMAIN seen_trace_ids'
                       <=> (/\ k \in DOMAIN seen_trace_ids
                            /\ seen_trace_ids[k] >= clock - DedupTtlSeconds)
              /\ \A k \in DOMAIN seen_trace_ids' :
                    seen_trace_ids'[k] = seen_trace_ids[k])]_vars
    /\ [](\A m \in DOMAIN seen_trace_ids : seen_trace_ids[m] = admitAt[m])
    /\ [][(/\ Delivered
           /\ admitAt[last'.id] >= 0
           /\ clock > admitAt[last'.id] + DedupTtlSeconds)
          => last'.outcome # "duplicate"]_vars

\* a duplicate was rejected at a later time than the admission and the entry
\* still carries the time of the admission
C26_Witness ==
    /\ last.outcome = "duplicate"
    /\ last.id \in DOMAIN seen_trace_ids
    /\ seen_trace_ids[last.id] < clock
    /\ seen_trace_ids[last.id] = admitAt[last.id]


(***************************************************************************)
(* SpecRedeliver: every message_id has one create_time for the whole run   *)
(* and is delivered again and again under a non-decreasing clock.          *)
(***************************************************************************)
\* seconds between the start of the run and the create_time of a message
CreateOffsets == {0, DedupTtlSeconds - StaleSeconds, DedupTtlSeconds - StaleSeconds + 1}

InitRedeliver ==
    /\ clock = StartTime
    /\ seen_trace_ids = EmptyMap
    /\ robot = "set"
    /\ last = NoCall
    /\ effects = <<>>
    /\ ticks = 0
    /\ calls = EmptyMap
    /\ handled = [m \in MsgIds |-> 0]
    /\ admitAt = [m \in MsgIds |-> 0 - 1]
    /\ created \in [MsgIds -> {(StartTime + o) * MsPerSecond : o \in CreateOffsets}]
    /\ ConnIdle

\* the platform delivers message m once more, with the create_time it has
Redeliver ==
    /\ \E m \in MsgIds :
          /\ on_feishu_msg(m, clock * MsPerSecond - created[m], TRUE)
          /\ handled' = [handled EXCEPT ![m] =
                IF last'.outcome = "admitted" /\ last'.type \in {"text", "image", "file"}
                THEN @ + 1 ELSE @]
    /\ UNCHANGED <<clock, robot, ticks, calls, created>>
    /\ UNCHANGED <<connVars, routerVars, sendVars, orderVars, fetchVars>>

NextRedeliver == Tick \/ Redeliver

SpecRedeliver == InitRedeliver /\ [][NextRedeliver]_vars

\* C27 as stated: over the whole run a handler is invoked at most once for a
\* message (same message_id, same create_time).
C27_HandledAtMostOnce == \A m \in MsgIds : handled[m] <= 1

\* C27 amended: a message that was admitted before is not admitted again, as
\* long as its create_time is not more than 1200 s (TTL minus staleness
\* threshold) ahead of the time of that admission.
C27_HandledOnceUnlessAhead ==
    [][(/\ last'.outcome # "none"
        /\ clock' = clock
        /\ admitAt[last'.id] >= 0
        /\ created[last'.id] \div MsPerSecond
              <= admitAt[last'.id] + DedupTtlSeconds - StaleSeconds)
       => last'.outcome # "admitted"]_vars

\* a message handled once was delivered again after its entry had been
\* pruned, and was dropped as stale
C27_Witness ==
    /\ last.outcome = "expired"
    /\ handled[last.id] = 1
    /\ admitAt[last.id] >= 0
    /\ clock > admitAt[last.id] + DedupTtlSeconds
    /\ last.id \notin DOMAIN seen_trace_ids


\* C28: a start() called after a stop() has returned creates a connection
\* loop: the call is not taken for a start of a manager already running,
\* and a thread is alive at the head of its loop.
C28_StartAfterStopRuns ==
    [][(stops >= 1 /\ stp.pc = "idle" /\ starts' # starts)
       => (starts' = "started" /\ threadAlive' /\ pc' = "while" /\ ~stopFlag')]_vars


\* C29: a frame whose send call returned False is never written afterwards.
\* The send_json call of _handle_open always returns False (its wait times
\* out on the loop's own thread), so no hello frame is ever on the wire.
C29_FalseMeansNotSent == hello = 0


\* C30: the hello sent by _handle_open on the loop's own thread completes its
\* write before the call returns: once _run is reading on the open socket the
\* hello frame has been written and no write of it is still queued.
C30_LoopThreadSendCompletes ==
    (pc = "reading" /\ ws # 0 /\ sock[ws] = "open")
        => (hello = 1 /\ HelloQueued(ws) = 0)


(***************************************************************************)
(* SpecOrder: one connection, its frames numbered in arrival order; the    *)
(* receive loop takes them one by one and calls the callback in line.      *)
(***************************************************************************)
MaxFrames == 3
OrderFrames == {[wire |-> "text", body |-> "object"],
                [wire |-> "text", body |-> "garbage"],
                [wire |-> "binary", body |-> "object"]}

InitOrder ==
    /\ RelayIdle
    /\ RouterIdle
    /\ FetchIdle
    /\ SendersIdle
    /\ loopSet = TRUE
    /\ threadAlive = TRUE
    /\ threads = 1
    /\ pc = "reading"
    /\ ws = 1
    /\ sock = [s \in Sockets |-> IF s = 1 THEN "open" ELSE "closed"]
    /\ stopFlag = FALSE
    /\ backoff = 1
    /\ fails = 0
    /\ slept = 0
    /\ ready = <<>>
    /\ sendLock = "free"
    /\ snd = IdleSend
    /\ stp = IdleStop
    /\ reconnect = FALSE
    /\ starts = "started"
    /\ rx = NoFrame
    /\ hello = 0
    /\ stops = 0

\* the callback handed off, the loop going on to the next frame at once
after_take_detached(n) == "reading"

\* self._on_event(parsed) is an ordinary call inside the loop body: the loop
\* is in the callback until it returns
after_take(n) == IF n > 0 THEN "callback" ELSE "reading"

\* the peer's next frame reaches the socket
FrameArrive ==
    /\ threadAlive /\ ws # 0 /\ sock[ws] = "open"
    /\ cb.arrived < MaxFrames
    /\ \E frame \in OrderFrames :
          inbox' = Append(inbox, [n |-> cb.arrived + 1, frame |-> frame])
    /\ cb' = [cb EXCEPT !.arrived = @ + 1]
    /\ UNCHANGED <<connVars, relayVars, routerVars, sendVars, fetchVars>>

\* async for message in self._ws: the loop takes the oldest frame, parses it
\* and, for a truthy value, enters the callback
FrameTake ==
    /\ threadAlive /\ pc = "reading"
    /\ sock[ws] = "open"
    /\ inbox # <<>>
    /\ LET m == Head(inbox)
           n == callback_calls(m.frame)
       IN  /\ inbox' = Tail(inbox)
           /\ pc' = after_take(n)
           /\ cb' = IF n > 0 THEN [cb EXCEPT !.running = Append(@, m.n)] ELSE cb
           /\ rx' = [frame |-> m.frame, calls |-> n, raised |-> FALSE]
    /\ UNCHANGED <<loopSet, threadAlive, threads, ws, sock, stopFlag, backoff,
                   fails, slept, ready, sendLock, snd, stp, reconnect, starts,
                   hello, stops>>
    /\ UNCHANGED <<relayVars, routerVars, sendVars, fetchVars>>

\* the callback returns and the loop goes back to `async for`
CallbackReturn ==
    /\ threadAlive
    /\ \E i \in 1..Len(cb.running) :
          cb' = [cb EXCEPT !.done = Append(@, cb.running[i]),
                           !.running = SubSeq(cb.running, 1, i - 1)
                                       \o SubSeq(cb.running, i + 1, Len(cb.running))]
    /\ pc' = IF pc = "callback" THEN "reading" ELSE pc
    /\ UNCHANGED <<loopSet, threadAlive, threads, ws, sock, stopFlag, backoff,
                   fails, slept, ready, sendLock, snd, stp, reconnect, starts,
                   rx, hello, stops>>
    /\ UNCHANGED <<inbox, relayVars, routerVars, sendVars, fetchVars>>

NextOrder ==
    \/ FrameArrive
    \/ FrameTake
    \/ CallbackReturn
    \/ ReadClosed
    \/ LoopFinally
    \/ LoopCheck

SpecOrder == InitOrder /\ [][NextOrder]_vars

\* C31: at most one callback invocation is in progress; the callbacks return
\* in the order the frames arrived; and while the callback of a frame runs,
\* every frame whose callback has returned arrived before it and every frame
\* still waiting arrived after it.
C31_InOrderNoOverlap ==
    /\ Len(cb.running) <= 1
    /\ \A i, j \in 1..Len(cb.done) : i < j => cb.done[i] < cb.done[j]
    /\ \A r \in 1..Len(cb.running) :
          /\ \A i \in 1..Len(cb.done) : cb.done[i] < cb.running[r]
          /\ \A i \in 1..Len(inbox) : inbox[i].n > cb.running[r]
    /\ \A i, j \in 1..Len(inbox) : i < j => inbox[i].n < inbox[j].n

\* the callbacks of frames 1 and 2 have returned and the loop is inside the
\* callback of frame 3
C31_Witness ==
    /\ cb.done = <<1, 2>>
    /\ cb.running = <<3>>
    /\ pc = "callback"


(***************************************************************************)
(* SpecDispatch: worker events of every method and action, a missing       *)
(* method or action included, with the details of SpecRespond.             *)
(***************************************************************************)
DispatchMethods == Methods \cup {Missing}
DispatchActions == {"errors", "respond", "control", "welcome", "user-input",
                    "hello", "stream", "change", "bogus", Missing}
DispatchPayloads ==
    {[isdict |-> FALSE, method |-> "", action |-> "",
      detail |-> [isdict |-> FALSE, actions |-> <<>>]]}
    \cup {[isdict |-> TRUE, method |-> m, action |-> a, detail |-> d] :
             m \in DispatchMethods, a \in DispatchActions, d \in RespondDetails}

\* the callback hands one worker event to the relay
OnDispatchEvent ==
    /\ event.state = "idle"
    /\ \E payload \in DispatchPayloads, printable \in BOOLEAN, send_ok \in BOOLEAN :
          LET r == on_robot_event(payload, printable, send_ok)
          IN  /\ event' = [isdict |-> payload.isdict, method |-> payload.method,
                           action |-> payload.action, detail |-> payload.detail,
                           state |-> r.state, route |-> r.route]
              /\ platform' = r.calls
    /\ UNCHANGED <<relayVars, connVars, sendVars, orderVars, fetchVars>>

NextDispatch == OnDispatchEvent \/ RouterReturn

SpecDispatch == InitRouter /\ [][NextDispatch]_vars

\* the event taken was a mapping with method system or message
Dispatched ==
    /\ event.state # "idle"
    /\ event.isdict
    /\ event.method \in {"system", "message"}

\* C32 (as stated): for method system or message, errors, control and welcome
\* go to their logging branch, respond to the reply handler, user-input, stream
\* and change do nothing, every other action value, a missing one included, is
\* logged as unknown action, and only respond makes platform calls.
C32_TableAsStated ==
    Dispatched =>
        /\ event.action \in {"errors", "control", "welcome", "respond"}
              => event.route = event.action
        /\ event.action \in {"user-input", "stream", "change"}
              => event.route = "no-op"
        /\ event.action \notin {"errors", "control", "welcome", "respond",
                                "user-input", "stream", "change"}
              => event.route = "unknown action"
        /\ event.action # "respond" => platform = <<>>

\* C32 (amended): as above, with hello among the actions for which nothing is
\* done and nothing is logged; every action value outside errors, control,
\* welcome, respond, user-input, hello, stream and change is logged as unknown
\* action, and only respond makes platform calls.
C32_TableWithHello ==
    Dispatched =>
        /\ event.action \in {"errors", "control", "welcome", "respond"}
              => event.route = event.action
        /\ event.action \in {"user-input", "hello", "stream", "change"}
              => event.route = "no-op"
        /\ event.action \notin {"errors", "control", "welcome", "respond",
                                "user-input", "hello", "stream", "change"}
              => event.route = "unknown action"
        /\ event.action # "respond" => platform = <<>>

\* a hello event of method system was taken: nothing logged, nothing sent
C32_Witness ==
    /\ Dispatched
    /\ event.action = "hello"
    /\ event.state = "done"
    /\ event.route = "no-op"
    /\ platform = <<>>


\* C33: a payload that is not a mapping, or whose method is not system or
\* message (a missing method included), reaches no handler and no logging
\* branch of the dispatch and makes no platform call, whatever its action and
\* detail are.
C33_OutsideDropped ==
    (/\ event.state # "idle"
     /\ (~event.isdict \/ event.method \notin {"system", "message"}))
    => (/\ event.route = (IF event.isdict THEN "dropped" ELSE "unknown payload")
        /\ platform = <<>>)

\* a respond event with a final entry but without a method was taken: it was
\* dropped and nothing was sent
C33_Witness ==
    /\ event.state = "dropped"
    /\ event.isdict
    /\ event.method = Missing
    /\ event.action = "respond"
    /\ event.detail.isdict
    /\ HasFinalEntry(event.detail.actions)
    /\ platform = <<>>


(***************************************************************************)
(* Claims on the message handlers (SpecRelay)                              *)
(***************************************************************************)
\* C34: an admitted message whose message_type is not text, image or file
\* makes no call at all: no acknowledgement reaction, no forward to the
\* worker, no download, no reply.
C34_OtherTypesIgnored ==
    (last.outcome = "admitted" /\ last.type \notin {"text", "image", "file"})
    => (effects = <<>> /\ ~last.raised)

\* a post message was admitted with a worker attached and nothing was called
C34_Witness ==
    /\ last.outcome = "admitted"
    /\ last.type = "post"
    /\ robot = "set"
    /\ last.id \in DOMAIN seen_trace_ids
    /\ effects = <<>>


AdmittedWithinTtl ==
    {m \in MsgIds : admitAt[m] >= 0 /\ clock - admitAt[m] <= DedupTtlSeconds}

\* C36: after every call of on_feishu_msg made at time now, whether it
\* admitted, rejected or failed on create_time, every seen_at of the dedup map
\* lies between now - 1800 and now, and the keys of the map are exactly the
\* ids admitted within the last 1800 s.
C36_MapWindow ==
    last.outcome # "none" =>
        /\ \A m \in DOMAIN seen_trace_ids :
              /\ clock - DedupTtlSeconds <= seen_trace_ids[m]
              /\ seen_trace_ids[m] <= clock
        /\ DOMAIN seen_trace_ids = AdmittedWithinTtl

\* a call was made exactly 1800 s after an admission and more than 1800 s
\* after another: the first id is still in the map, the second is gone
C36_Witness ==
    /\ last.outcome # "none"
    /\ \E m \in DOMAIN seen_trace_ids : seen_trace_ids[m] = clock - DedupTtlSeconds
    /\ \E m \in MsgIds : /\ admitAt[m] >= 0
                         /\ clock - admitAt[m] > DedupTtlSeconds
                         /\ m \notin DOMAIN seen_trace_ids


(***************************************************************************)
(* SpecReplyTo: respond events of different tasks, methods and details     *)
(***************************************************************************)
TaskIds == {"t1", "t2"}
TaskPayloads ==
    RespondPayloads
    \cup {[isdict |-> TRUE, method |-> m, action |-> "respond", detail |-> d,
           taskid |-> t] : m \in Methods, d \in RespondDetails, t \in TaskIds}

\* the callback hands one respond event of some task to the relay
OnTaskEvent ==
    /\ event.state = "idle"
    /\ \E payload \in TaskPayloads, printable \in BOOLEAN, send_ok \in BOOLEAN :
          LET r == on_robot_event(payload, printable, send_ok)
          IN  /\ event' = [isdict |-> payload.isdict, method |-> payload.method,
                           action |-> payload.action, detail |-> payload.detail,
                           state |-> r.state, route |-> r.route,
                           taskid |-> taskid_of(payload)]
              /\ platform' = r.calls
    /\ UNCHANGED <<relayVars, connVars, sendVars, orderVars, fetchVars>>

NextReplyTo == OnTaskEvent \/ RouterReturn

SpecReplyTo == InitRouter /\ [][NextReplyTo]_vars

\* C37: every platform call made for a respond event has the one fixed
\* receiver, whatever the event's taskid (t1, t2 or none), method and detail
\* are; so two events that differ only in taskid reply to the same receiver.
C37_OneReceiver ==
    \A i \in 1..Len(platform) : platform[i].receive_id = ReplyEmail

\* a respond event of task t2 was answered with one reply to the fixed address
C37_Witness ==
    /\ event.state = "done"
    /\ event.action = "respond"
    /\ event.taskid = "t2"
    /\ Len(platform) = 1
    /\ platform[1].receive_id = ReplyEmail


(***************************************************************************)
(* BitableHandle.get_remote_tables / get_remote_fields: the pagination     *)
(* loop.  The remote is a listing of at most MaxPages pages; a request     *)
(* without page_token is answered with page 1, a request with page_token t *)
(* with page t.  Every answer is successful; its page_token is empty or    *)
(* names a later page, so every listing ends with has_more false or with   *)
(* an empty page_token.                                                    *)
(***************************************************************************)
Responses(k) == [has_more : BOOLEAN, page_token : {NoToken} \cup ((k + 1)..MaxPages)]
Remotes ==
    {r \in [1..MaxPages -> [has_more : BOOLEAN,
                             page_token : {NoToken} \cup (1..MaxPages)]] :
        \A k \in 1..MaxPages : r[k] \in Responses(k)}

\* `if page_token: request = request.page_token(page_token)`: a request built
\* without page_token asks for the first page
page_of(page_token) == IF page_token = NoToken THEN 1 ELSE page_token

\* get_remote_tables: `if response.data.has_more:`
tables_has_next(resp) == resp.has_more

\* get_remote_fields: `if response.data.has_more and response.data.page_token:`
fields_has_next(resp) == resp.has_more /\ resp.page_token # NoToken

has_next(who, resp) ==
    IF who = "tables" THEN tables_has_next(resp) ELSE fields_has_next(resp)

\* get_remote_tables() or get_remote_fields() is called: page_token = None
FetchStart ==
    /\ fetch.pc \in {"idle", "returned"}
    /\ \E who \in {"tables", "fields"}, r \in Remotes :
          /\ remote' = r
          /\ fetch' = [who |-> who, pc |-> "request", page_token |-> NoToken,
                       page |-> 0]
    /\ UNCHANGED <<relayVars, connVars, routerVars, sendVars, orderVars>>

\* the request of one loop iteration is built and sent
FetchRequest ==
    /\ fetch.pc = "request"
    /\ fetch' = [fetch EXCEPT !.pc = "waiting", !.page = page_of(fetch.page_token)]
    /\ UNCHANGED <<remote, relayVars, connVars, routerVars, sendVars, orderVars>>

\* the successful response is taken: the items are added and the loop either
\* goes on with response.data.page_token or breaks and returns
FetchResponse ==
    /\ fetch.pc = "waiting"
    /\ LET resp == remote[fetch.page]
       IN  fetch' = IF has_next(fetch.who, resp)
                    THEN [fetch EXCEPT !.pc = "request",
                                       !.page_token = resp.page_token]
                    ELSE [fetch EXCEPT !.pc = "returned"]
    /\ UNCHANGED <<remote, relayVars, connVars, routerVars, sendVars, orderVars>>

NextFetch == FetchStart \/ FetchRequest \/ FetchResponse

\* a call that was made keeps running: its request and response steps are
\* taken whenever they are possible
SpecFetch ==
    /\ InitRouter
    /\ [][NextFetch]_vars
    /\ WF_vars(FetchRequest)
    /\ WF_vars(FetchResponse)

\* C38: a paginated fetch that was called returns, for every listing whose
\* answers are successful and end with has_more false or with an empty
\* page_token.
C38_FetchTerminates == (fetch.pc = "request") ~> (fetch.pc = "returned")

\* get_remote_fields alone returns for every such listing
FieldsFetchTerminates ==
    (fetch.pc = "request" /\ fetch.who = "fields") ~> (fetch.pc = "returned")

====
